---- MODULE Spec2Model ----
(***************************************************************************)
(* A model of hkpy's hkbase client: HKBase (hkbase.py) and HKRepository    *)
(* (hkrepository.py), together with the part of the hkbase server the two  *)
(* talk to: the set of repositories and the entities of one repository.    *)
(*                                                                         *)
(* Every client method is split at its HTTP round trips: a Call step puts  *)
(* the caller inside the method, and each further step is one request,     *)
(* its response, and the code that runs until the next request or until    *)
(* the method returns or raises.  Other clients of the same server act     *)
(* between the round trips.                                                *)
(***************************************************************************)
EXTENDS Integers, Sequences, FiniteSets, TLC

\* ----------------------------------------------------------------- bounds
NumNames == 2
AllNames == <<"kb1", "kb2", "kb3", "kb4">>
Names == {AllNames[i] : i \in 1..NumNames}

NumIds == 2
AllIds == <<"e1", "e2", "e3", "e4">>
Ids == {AllIds[i] : i \in 1..NumIds}

\* The longest list a caller passes.
MaxLen == 2

VARIABLES
    repos,      \* server: the names of the repositories that exist
    bpc,        \* base client: the caller's position
    bop,        \* base client: the method being (or last) called and its argument
    bres,       \* base client: what the method returned or raised
    reqLog,     \* the HTTP requests the current (or last) base call has issued
    excLog,     \* per request of reqLog: the exception the call around it raised
    seen,       \* the listing the last GET /repository answered with
    grList,     \* get_repositories: the listing being iterated
    grIdx,      \* get_repositories: index of the next name to connect
    grOut       \* get_repositories: names of the clients built so far

bvars == <<repos, bpc, bop, bres, reqLog, excLog, seen, grList, grIdx, grOut>>

VARIABLES
    store,        \* server: the ids of the entities of the repository
    baseHeaders,  \* the mapping base._headers, which repository._headers aliases
    initHeaders,  \* the value HKBase.__init__ gave that mapping
    rpc,          \* repository client: the caller's position
    rop,          \* repository client: the method called, and its arguments while it runs
    rres,         \* repository client: what the method returned or raised
    rlog,         \* the HTTP requests the current (or last) repository call has issued
    fetched,      \* clear: the entities its get_entities returned
    interfered,   \* another client wrote to the repository during the current call
    addedSince    \* ids other clients added since clear's fetch and have not deleted

rvars == <<store, baseHeaders, initHeaders, rpc, rop, rres, rlog, fetched,
           interfered, addedSince>>

vars == <<bvars, rvars>>

\* ------------------------------------------------------------- exceptions
\* An exception: its type, its message and the chain of its causes (the
\* `error` argument of HKpyError and HKBError), nearest first.
NoExc == [type |-> "none", msg |-> "", chain |-> <<>>]

Exc(t, m) == [type |-> t, msg |-> m, chain |-> <<>>]

ExcFrom(t, m, cause) ==
    [type |-> t, msg |-> m,
     chain |-> <<[type |-> cause.type, msg |-> cause.msg]>> \o cause.chain]

\* The exception an exception was built from.
CauseOf(e) ==
    IF e.chain = <<>> THEN NoExc
    ELSE [type |-> e.chain[1].type, msg |-> e.chain[1].msg, chain |-> Tail(e.chain)]

\* --------------------------------------------------------------- results
Pending == [kind |-> "pending", val |-> <<>>, exc |-> NoExc]
Returned(kind, val) == [kind |-> kind, val |-> val, exc |-> NoExc]
Raise(e) == [kind |-> "raise", val |-> <<>>, exc |-> e]

\* HKRepository(base=self, name=name)
HKRepositoryInit(name) == Returned("client", <<name>>)

\* --------------------------------------------------------------- transport
\* What one HTTP exchange can be: a 2xx response with a well-formed body, a
\* non-2xx response, no response at all (requests raises), or a 2xx response
\* whose body the caller cannot take apart.
Responses == {"ok", "http_error", "conn_error", "bad_body"}

Succeeded(resp) == resp \in {"ok", "bad_body"}

\* response_validator: the domain error on a non-success status; the body of
\* a success response is decoded, which fails on a malformed body.
response_validator(resp) ==
    IF resp = "http_error" THEN Exc("HKBError", "status")
    ELSE IF resp = "bad_body" THEN Exc("ValueError", "")
    ELSE NoExc

\* requests.<verb>(...) followed by response_validator: the exception
\* raised, NoExc when none.
Exchange(resp) ==
    IF resp = "conn_error" THEN Exc("ConnectionError", "")
    ELSE response_validator(resp)

\* ------------------------------------------------------------------ server
RECURSIVE ListFrom(_, _)
ListFrom(S, i) ==
    IF i > Len(AllNames) THEN <<>>
    ELSE (IF AllNames[i] \in S THEN <<AllNames[i]>> ELSE <<>>) \o ListFrom(S, i + 1)

\* GET /repository: the names of the repositories, as a list.
Listing(S) == ListFrom(S, 1)

\* PUT /repository/{name}/ creates a repository that does not exist.
PutRepoResponses(S, name) ==
    {"http_error", "conn_error"} \cup (IF name \in S THEN {} ELSE {"ok", "bad_body"})

\* DELETE /repository/{name}/ deletes a repository that exists.
DeleteRepoResponses(S, name) ==
    {"http_error", "conn_error"} \cup (IF name \in S THEN {"ok", "bad_body"} ELSE {})

\* --------------------------------------------------------- HKBase methods
InList(name, list) == \E i \in 1..Len(list) : list[i] = name

view_repositories(resp, listing) ==
    LET err == Exchange(resp) IN
    IF err = NoExc THEN Returned("list", listing)
    ELSE IF err.type = "HKBError" THEN Raise(err)
    ELSE Raise(ExcFrom("HKpyError", "Could not retrieve existing repositories.", err))

\* connect_repository without its membership test.
connect_repository_unchecked(name, resp, listing) ==
    LET v == view_repositories(resp, listing) IN
    IF v.kind = "raise" THEN v ELSE HKRepositoryInit(name)

connect_repository(name, resp, listing) ==
    LET v == view_repositories(resp, listing) IN
    IF v.kind = "raise" THEN v
    ELSE IF InList(name, v.val) THEN HKRepositoryInit(name)
    ELSE Raise(Exc("HKpyError", "Could not connect to repository."))

\* create_repository without its second handler.
create_repository_unwrapped(name, resp) ==
    LET err == Exchange(resp) IN
    IF err = NoExc THEN HKRepositoryInit(name) ELSE Raise(err)

create_repository(name, resp) ==
    LET err == Exchange(resp) IN
    IF err = NoExc THEN HKRepositoryInit(name)
    ELSE IF err.type = "HKBError" THEN Raise(err)
    ELSE Raise(ExcFrom("HKpyError", "Repository not created.", err))

delete_repository(name, resp) ==
    LET err == Exchange(resp) IN
    IF err = NoExc THEN Returned("none", <<>>)
    ELSE IF err.type = "HKBError" THEN Raise(err)
    ELSE Raise(ExcFrom("HKpyError", "Repository not deleted.", err))

\* get_repositories' handlers, around an exception raised in its try block.
get_repositories_except(err) ==
    IF err.type = "HKBError" THEN Raise(err)
    ELSE Raise(ExcFrom("HKpyError", "Could not retrieve existing repositories.", err))

\* delete_create_repository with its handlers in the other order: the
\* HKBError handler is never reached.
delete_create_except_shadowed(r) ==
    IF r.kind # "raise" THEN r
    ELSE Raise(ExcFrom("HKpyError", "Repository not deleted or created.", r.exc))

\* delete_create_repository's handlers, around the first create's result:
\* "retry" stands for the HKBError branch, which goes on to delete.
delete_create_except(r) ==
    IF r.kind # "raise" THEN r
    ELSE IF r.exc.type = "HKBError" THEN Returned("retry", <<>>)
    ELSE Raise(ExcFrom("HKpyError", "Repository not deleted or created.", r.exc))

\* ------------------------------------------------------------------- Init
BaseMethods ==
    {"connect_repository", "create_repository", "delete_repository",
     "delete_create_repository", "get_repositories"}

InitBase ==
    /\ repos \in SUBSET Names
    /\ bpc = "idle"
    /\ bop = [name |-> "none", arg |-> ""]
    /\ bres = Pending
    /\ reqLog = <<>>
    /\ excLog = <<>>
    /\ seen = <<>>
    /\ grList = <<>>
    /\ grIdx = 1
    /\ grOut = <<>>

\* ----------------------------------------------------------- base actions
\* The caller enters a method of HKBase.
CallBase(m, name) ==
    /\ bpc = "idle"
    /\ bpc' = m
    /\ bop' = [name |-> m, arg |-> IF m = "get_repositories" THEN "" ELSE name]
    /\ bres' = Pending
    /\ reqLog' = <<>>
    /\ excLog' = <<>>
    /\ seen' = <<>>
    /\ grList' = <<>>
    /\ grIdx' = 1
    /\ grOut' = <<>>
    /\ UNCHANGED repos
    /\ UNCHANGED rvars

ConnectRepository(resp) ==
    /\ bpc = "connect_repository"
    /\ reqLog' = Append(reqLog, "GET")
    /\ excLog' = Append(excLog, Exchange(resp))
    /\ seen' = IF resp = "ok" THEN Listing(repos) ELSE <<>>
    /\ bres' = connect_repository(bop.arg, resp, Listing(repos))
    /\ bpc' = "idle"
    /\ UNCHANGED <<repos, bop, grList, grIdx, grOut>>
    /\ UNCHANGED rvars

CreateRepository(resp) ==
    /\ bpc = "create_repository"
    /\ resp \in PutRepoResponses(repos, bop.arg)
    /\ reqLog' = Append(reqLog, "PUT")
    /\ repos' = IF Succeeded(resp) THEN repos \cup {bop.arg} ELSE repos
    /\ excLog' = Append(excLog, Exchange(resp))
    /\ bres' = create_repository(bop.arg, resp)
    /\ bpc' = "idle"
    /\ UNCHANGED <<bop, seen, grList, grIdx, grOut>>
    /\ UNCHANGED rvars

DeleteRepository(resp) ==
    /\ bpc = "delete_repository"
    /\ resp \in DeleteRepoResponses(repos, bop.arg)
    /\ reqLog' = Append(reqLog, "DELETE")
    /\ repos' = IF Succeeded(resp) THEN repos \ {bop.arg} ELSE repos
    /\ excLog' = Append(excLog, Exchange(resp))
    /\ bres' = delete_repository(bop.arg, resp)
    /\ bpc' = "idle"
    /\ UNCHANGED <<bop, seen, grList, grIdx, grOut>>
    /\ UNCHANGED rvars

\* delete_create_repository: the create inside the try block.
DcCreate(resp) ==
    /\ bpc = "delete_create_repository"
    /\ resp \in PutRepoResponses(repos, bop.arg)
    /\ reqLog' = Append(reqLog, "PUT")
    /\ repos' = IF Succeeded(resp) THEN repos \cup {bop.arg} ELSE repos
    /\ excLog' = Append(excLog, create_repository(bop.arg, resp).exc)
    /\ LET r == delete_create_except(create_repository(bop.arg, resp)) IN
        IF r.kind = "retry"
        THEN /\ bpc' = "dc_delete"
             /\ bres' = Pending
        ELSE /\ bpc' = "idle"
             /\ bres' = r
    /\ UNCHANGED <<bop, seen, grList, grIdx, grOut>>
    /\ UNCHANGED rvars

\* delete_create_repository: the delete of the HKBError handler.
DcDelete(resp) ==
    /\ bpc = "dc_delete"
    /\ resp \in DeleteRepoResponses(repos, bop.arg)
    /\ reqLog' = Append(reqLog, "DELETE")
    /\ repos' = IF Succeeded(resp) THEN repos \ {bop.arg} ELSE repos
    /\ excLog' = Append(excLog, delete_repository(bop.arg, resp).exc)
    /\ LET r == delete_repository(bop.arg, resp) IN
        IF r.kind = "raise"
        THEN /\ bpc' = "idle"
             /\ bres' = r
        ELSE /\ bpc' = "dc_create"
             /\ bres' = Pending
    /\ UNCHANGED <<bop, seen, grList, grIdx, grOut>>
    /\ UNCHANGED rvars

\* delete_create_repository: the create of the HKBError handler.
DcRecreate(resp) ==
    /\ bpc = "dc_create"
    /\ resp \in PutRepoResponses(repos, bop.arg)
    /\ reqLog' = Append(reqLog, "PUT")
    /\ repos' = IF Succeeded(resp) THEN repos \cup {bop.arg} ELSE repos
    /\ excLog' = Append(excLog, create_repository(bop.arg, resp).exc)
    /\ bres' = create_repository(bop.arg, resp)
    /\ bpc' = "idle"
    /\ UNCHANGED <<bop, seen, grList, grIdx, grOut>>
    /\ UNCHANGED rvars

\* get_repositories building its clients from the listing, without connecting.
GrListDirect(resp) ==
    /\ bpc = "get_repositories"
    /\ reqLog' = Append(reqLog, "GET")
    /\ excLog' = Append(excLog, Exchange(resp))
    /\ seen' = IF resp = "ok" THEN Listing(repos) ELSE <<>>
    /\ grIdx' = 1
    /\ grOut' = <<>>
    /\ bpc' = "idle"
    /\ IF Exchange(resp) # NoExc
       THEN /\ bres' = get_repositories_except(Exchange(resp))
            /\ grList' = <<>>
       ELSE /\ bres' = Returned("clients", Listing(repos))
            /\ grList' = Listing(repos)
    /\ UNCHANGED <<repos, bop>>
    /\ UNCHANGED rvars

\* get_repositories: the listing request, and the comprehension when the
\* listing is empty.
GrList(resp) ==
    /\ bpc = "get_repositories"
    /\ reqLog' = Append(reqLog, "GET")
    /\ excLog' = Append(excLog, Exchange(resp))
    /\ seen' = IF resp = "ok" THEN Listing(repos) ELSE <<>>
    /\ grIdx' = 1
    /\ grOut' = <<>>
    /\ IF Exchange(resp) # NoExc
       THEN /\ bres' = get_repositories_except(Exchange(resp))
            /\ bpc' = "idle"
            /\ grList' = <<>>
       ELSE IF Listing(repos) = <<>>
       THEN /\ bres' = Returned("clients", <<>>)
            /\ bpc' = "idle"
            /\ grList' = <<>>
       ELSE /\ bres' = Pending
            /\ bpc' = "gr_connect"
            /\ grList' = Listing(repos)
    /\ UNCHANGED <<repos, bop>>
    /\ UNCHANGED rvars

\* get_repositories: one connect_repository of the comprehension.
GrConnect(resp) ==
    /\ bpc = "gr_connect"
    /\ reqLog' = Append(reqLog, "GET")
    /\ seen' = IF resp = "ok" THEN Listing(repos) ELSE <<>>
    /\ excLog' = Append(excLog, connect_repository(grList[grIdx], resp, Listing(repos)).exc)
    /\ LET r == connect_repository(grList[grIdx], resp, Listing(repos)) IN
        IF r.kind = "raise"
        THEN /\ bres' = get_repositories_except(r.exc)
             /\ bpc' = "idle"
             /\ UNCHANGED <<grIdx, grOut>>
        ELSE /\ grOut' = grOut \o r.val
             /\ grIdx' = grIdx + 1
             /\ IF grIdx = Len(grList)
                THEN /\ bres' = Returned("clients", grOut \o r.val)
                     /\ bpc' = "idle"
                ELSE /\ bres' = Pending
                     /\ bpc' = "gr_connect"
    /\ UNCHANGED <<repos, bop, grList>>
    /\ UNCHANGED rvars

\* Another client of the server creates or deletes a repository.
OtherCreateRepository(name) ==
    /\ name \notin repos
    /\ repos' = repos \cup {name}
    /\ UNCHANGED <<bpc, bop, bres, reqLog, excLog, seen, grList, grIdx, grOut>>
    /\ UNCHANGED rvars

OtherDeleteRepository(name) ==
    /\ name \in repos
    /\ repos' = repos \ {name}
    /\ UNCHANGED <<bpc, bop, bres, reqLog, excLog, seen, grList, grIdx, grOut>>
    /\ UNCHANGED rvars

\* ============================================================ HKRepository
\* ---------------------------------------------------------------- entities
\* A value a caller passes or a method returns: an HKEntity object, a plain
\* mapping, or a string, each standing for the entity of one id.
Elem(k, i) == [kind |-> k, id |-> i]

Elems(kinds) == {Elem(k, i) : k \in kinds, i \in Ids}

\* hkfy: a mapping to the typed object.
hkfy(d) == Elem("HKEntity", d.id)

\* HKEntity.to_dict: the typed object to a mapping.
to_dict(e) == Elem("dict", e.id)

\* HKEntity.id_
id_(e) == Elem("str", e.id)

\* [hkfy(entity) for entity in data], [x.to_dict() for x in entities],
\* [x.id_ for x in ids]
HkfyAll(s) == [i \in 1..Len(s) |-> hkfy(s[i])]
ToDictAll(s) == [i \in 1..Len(s) |-> to_dict(s[i])]
IdAll(s) == [i \in 1..Len(s) |-> id_(s[i])]

IdsOf(s) == {s[i].id : i \in 1..Len(s)}

SeqsUpTo(S, n) == UNION {[1..k -> S] : k \in 0..n}

\* ----------------------------------------------------------------- headers
\* dict[k] = v
Put(h, k, v) == [x \in DOMAIN h \cup {k} |-> IF x = k THEN v ELSE h[x]]

Bearer(auth) == IF auth = "" THEN "Bearer AUTH_TOKEN" ELSE "Bearer secret"

\* HKBase.__init__: the header mapping.
HKBaseInit(auth) ==
    Put([k \in {"Content-Type"} |-> "application/json"], "Authorization", Bearer(auth))

\* What a method does with the shared mapping `self` to get the headers `req`
\* of its request.
add_entities_headers(h) ==
    [self |-> h, req |-> Put(h, "Content-Type", "application/json")]

get_entities_headers(h, filter) ==
    IF filter.kind = "str"
    THEN [self |-> h, req |-> Put(h, "Content-Type", "text/plain")]
    ELSE [self |-> h, req |-> h]

delete_entities_headers(h) == [self |-> h, req |-> h]

\* import_data updating the shared mapping instead of a copy.
import_data_headers_shared(h, datatype, doc, opts) ==
    LET tmp == Put(Put(h, "Content-Type", datatype), "Content-Length", doc.bytes)
        req == IF opts.context # "absent" THEN Put(tmp, "context-parent", "ctx") ELSE tmp
    IN  [self |-> req, req |-> req]

import_data_headers(h, datatype, doc, opts) ==
    LET tmp == Put(Put(h, "Content-Type", datatype), "Content-Length", doc.bytes) IN
    [self |-> h,
     req |-> IF opts.context # "absent" THEN Put(tmp, "context-parent", "ctx") ELSE tmp]

hyql_headers(h) ==
    [self |-> h, req |-> Put(h, "Content-Type", "text/plain")]

\* ------------------------------------------------------------------ server
SortedIds(S) == SelectSeq(AllIds, LAMBDA i : i \in S)

\* POST .../entity: the mappings of the stored entities the filter matches,
\* in the order of the response's values.
ServerQuery(S, match) == LET ids == SortedIds(S \cap match) IN [k \in 1..Len(ids) |-> Elem("dict", ids[k])]

\* PUT .../entity/ stores every entity of the body under its id.
ServerPut(S, body) == S \cup IdsOf(body)

\* DELETE .../entity/ removes the entities whose ids the body lists.
ServerDelete(S, body) == S \ IdsOf(body)

\* ------------------------------------------------------------- arguments
NoArgs == [none |-> TRUE]

EntityArgs ==
    {[single |-> FALSE, elems |-> s] : s \in SeqsUpTo(Elems({"HKEntity", "dict"}), MaxLen)}
    \cup {[single |-> TRUE, elems |-> <<e>>] : e \in Elems({"HKEntity", "dict", "str"})}

IdArgs ==
    {[single |-> FALSE, elems |-> s] : s \in SeqsUpTo(Elems({"str", "HKEntity"}), MaxLen)}
    \cup {[single |-> TRUE, elems |-> <<e>>] : e \in Elems({"str", "HKEntity"})}

\* The empty mapping {} matches every entity.
EmptyFilter == [kind |-> "dict", match |-> Ids]

Filters ==
    {EmptyFilter, [kind |-> "other", match |-> {}]}
    \cup {[kind |-> k, match |-> {i}] : k \in {"dict", "str"}, i \in Ids}

\* What import_data is given: whether the text parses as JSON and to what,
\* the entities the server derives from it as RDF, and its length in bytes.
Docs ==
    {[json |-> TRUE, elems |-> <<Elem("dict", AllIds[1])>>, rdf |-> {}, bytes |-> "14"],
     [json |-> TRUE, elems |-> <<>>, rdf |-> {}, bytes |-> "2"],
     [json |-> FALSE, elems |-> <<>>, rdf |-> {AllIds[2]}, bytes |-> "40"]}

ImportArgs ==
    [fd : {"str", "TextIOWrapper", "other"}, doc : Docs,
     datatype : {"text/turtle", "application/rdf+xml"},
     as_hk : {"absent", "true", "false"},
     context : {"absent", "str", "HKContext"}]

\* ---------------------------------------------------- HKRepository methods
Prepared(body) == [exc |-> NoExc, body |-> body]
Fails(t) == [exc |-> Exc(t, ""), body |-> <<>>]

\* add_entities sending its first item only.
add_entities_body_first(arg) ==
    LET entities == arg.elems IN
    IF entities = <<>> THEN Fails("IndexError")
    ELSE IF entities[1].kind = "HKEntity" THEN Prepared(<<to_dict(entities[1])>>)
    ELSE IF entities[1].kind = "dict" THEN Prepared(<<entities[1]>>)
    ELSE Fails("ValueError")

\* add_entities up to its request: the list, the to_dict of each item,
\* json.dumps.
add_entities_body(arg) ==
    LET entities == arg.elems IN
    IF entities = <<>> THEN Fails("IndexError")
    ELSE IF entities[1].kind = "HKEntity"
    THEN IF \E i \in 1..Len(entities) : entities[i].kind # "HKEntity"
         THEN Fails("AttributeError")
         ELSE Prepared(ToDictAll(entities))
    ELSE IF entities[1].kind = "dict"
    THEN IF \E i \in 1..Len(entities) : entities[i].kind = "HKEntity"
         THEN Fails("TypeError")
         ELSE Prepared(entities)
    ELSE Fails("ValueError")

\* delete_entities sending its first id only.
delete_entities_body_first(arg) ==
    LET ids == arg.elems IN
    IF ids = <<>> THEN Fails("IndexError")
    ELSE IF ids[1].kind = "HKEntity" THEN Prepared(<<id_(ids[1])>>)
    ELSE Prepared(<<ids[1]>>)

\* delete_entities up to its request: the list, the id_ of each item,
\* json.dumps.
delete_entities_body(arg) ==
    LET ids == arg.elems IN
    IF ids = <<>> THEN Fails("IndexError")
    ELSE IF ids[1].kind = "HKEntity"
    THEN IF \E i \in 1..Len(ids) : ids[i].kind # "HKEntity"
         THEN Fails("AttributeError")
         ELSE Prepared(IdAll(ids))
    ELSE IF \E i \in 1..Len(ids) : ids[i].kind = "HKEntity"
    THEN Fails("TypeError")
    ELSE Prepared(ids)

\* add_entities and delete_entities after their request: nothing is caught.
uncaught(resp) ==
    IF Exchange(resp) = NoExc THEN Returned("none", <<>>) ELSE Raise(Exchange(resp))

\* get_entities after its request.
get_entities_result(resp, data) ==
    LET err == Exchange(resp) IN
    IF err = NoExc THEN Returned("entities", HkfyAll(data))
    ELSE IF err.type \in {"HKBError", "HKpyError"} THEN Raise(err)
    ELSE Raise(ExcFrom("HKBError", "Could not retrieve the entities.", err))

\* hyql after its request.
hyql_result(resp, data) ==
    IF Exchange(resp) = NoExc THEN Returned("entities", HkfyAll(data))
    ELSE Raise(Exchange(resp))

\* clear giving delete_entities the first fetched entity instead of the list.
clear_ids_first(entities) ==
    IF entities = <<>> THEN [single |-> FALSE, elems |-> <<>>]
    ELSE [single |-> TRUE, elems |-> <<entities[1]>>]

\* clear: the argument it gives delete_entities.
clear_ids(entities) == [single |-> FALSE, elems |-> entities]

\* import_data up to the choice of its branch: the exception raised, or the
\* branch taken.
import_data_branch(a) ==
    IF a.fd = "other" THEN [exc |-> Exc("HKpyError", "Data formaat not supported."), to |-> "none"]
    ELSE IF a.as_hk = "true"
    THEN IF a.doc.json THEN [exc |-> NoExc, to |-> "add_entities"]
         ELSE [exc |-> Exc("JSONDecodeError", ""), to |-> "none"]
    ELSE [exc |-> NoExc, to |-> "rdf"]

Request(verb, path, body, headers) ==
    [verb |-> verb, path |-> path, body |-> body, headers |-> headers]

\* ------------------------------------------------------------------- Init
RepoMethods ==
    {"add_entities", "get_entities", "delete_entities", "update_entities",
     "import_data", "clear", "hyql"}

ArgsOf(m) ==
    IF m \in {"add_entities", "update_entities"} THEN EntityArgs
    ELSE IF m = "delete_entities" THEN IdArgs
    ELSE IF m = "get_entities" THEN Filters
    ELSE IF m = "import_data" THEN ImportArgs
    ELSE IF m = "hyql" THEN {[match |-> Ids]} \cup {[match |-> {i}] : i \in Ids}
    ELSE {NoArgs}

NotFetched == [done |-> FALSE, entities |-> <<>>]

InitRepo ==
    /\ store \in SUBSET Ids
    /\ baseHeaders = HKBaseInit("secret")
    /\ initHeaders = baseHeaders
    /\ rpc = "idle"
    /\ rop = [name |-> "none", args |-> NoArgs]
    /\ rres = Pending
    /\ rlog = <<>>
    /\ fetched = NotFetched
    /\ interfered = FALSE
    /\ addedSince = {}

\* ----------------------------------------------------- repository actions
\* The caller enters a method of HKRepository; update_entities is a call of
\* add_entities.
CallRepo(m, args) ==
    /\ rpc = "idle"
    /\ rpc' = IF m = "update_entities" THEN "add_entities" ELSE m
    /\ rop' = [name |-> m, args |-> args]
    /\ rres' = Pending
    /\ rlog' = <<>>
    /\ fetched' = NotFetched
    /\ interfered' = FALSE
    /\ addedSince' = {}
    /\ UNCHANGED <<store, baseHeaders, initHeaders>>
    /\ UNCHANGED bvars

\* The method returns or raises: its frame, and with it its arguments, is gone.
Leave(result) ==
    /\ rpc' = "idle"
    /\ rop' = [name |-> rop.name, args |-> NoArgs]
    /\ rres' = result

\* The body of add_entities, called with `arg`.
AddStep(arg, resp) ==
    LET p == add_entities_body(arg)
        h == add_entities_headers(baseHeaders)
    IN  IF p.exc # NoExc
        THEN /\ Leave(Raise(p.exc))
             /\ UNCHANGED <<store, baseHeaders, rlog>>
        ELSE /\ rlog' = Append(rlog, Request("PUT", "entity/", p.body, h.req))
             /\ baseHeaders' = h.self
             /\ store' = IF Succeeded(resp) THEN ServerPut(store, p.body) ELSE store
             /\ Leave(uncaught(resp))

\* The body of delete_entities, called with `arg`.
DeleteStep(arg, resp) ==
    LET p == delete_entities_body(arg)
        h == delete_entities_headers(baseHeaders)
    IN  IF p.exc # NoExc
        THEN /\ Leave(Raise(p.exc))
             /\ UNCHANGED <<store, baseHeaders, rlog>>
        ELSE /\ rlog' = Append(rlog, Request("DELETE", "entity/", p.body, h.req))
             /\ baseHeaders' = h.self
             /\ store' = IF Succeeded(resp) THEN ServerDelete(store, p.body) ELSE store
             /\ Leave(uncaught(resp))

AddEntities(resp) ==
    /\ rpc = "add_entities"
    /\ AddStep(rop.args, resp)
    /\ UNCHANGED <<initHeaders, fetched, interfered, addedSince>>
    /\ UNCHANGED bvars

DeleteEntities(resp) ==
    /\ rpc = "delete_entities"
    /\ DeleteStep(rop.args, resp)
    /\ UNCHANGED <<initHeaders, fetched, interfered, addedSince>>
    /\ UNCHANGED bvars

GetEntities(resp) ==
    /\ rpc = "get_entities"
    /\ LET h == get_entities_headers(baseHeaders, rop.args) IN
        IF rop.args.kind = "other"
        THEN /\ Leave(Raise(Exc("HKpyError", "Invalid filter type.")))
             /\ UNCHANGED <<baseHeaders, rlog>>
        ELSE /\ rlog' = Append(rlog, Request("POST", "entity", <<>>, h.req))
             /\ baseHeaders' = h.self
             /\ Leave(get_entities_result(resp, ServerQuery(store, rop.args.match)))
    /\ UNCHANGED <<store, initHeaders, fetched, interfered, addedSince>>
    /\ UNCHANGED bvars

Hyql(resp) ==
    /\ rpc = "hyql"
    /\ LET h == hyql_headers(baseHeaders) IN
        /\ rlog' = Append(rlog, Request("POST", "query/", <<>>, h.req))
        /\ baseHeaders' = h.self
        /\ Leave(hyql_result(resp, ServerQuery(store, rop.args.match)))
    /\ UNCHANGED <<store, initHeaders, fetched, interfered, addedSince>>
    /\ UNCHANGED bvars

ImportData(resp) ==
    /\ rpc = "import_data"
    /\ LET a == rop.args
           b == import_data_branch(a)
           h == import_data_headers(baseHeaders, a.datatype, a.doc, a)
       IN  IF b.exc # NoExc
           THEN /\ Leave(Raise(b.exc))
                /\ UNCHANGED <<store, baseHeaders, rlog>>
           ELSE IF b.to = "add_entities"
           THEN AddStep([single |-> FALSE, elems |-> a.doc.elems], resp)
           ELSE /\ rlog' = Append(rlog, Request("PUT", "rdf", <<>>, h.req))
                /\ baseHeaders' = h.self
                /\ store' = IF Succeeded(resp) THEN store \cup a.doc.rdf ELSE store
                /\ Leave(uncaught(resp))
    /\ UNCHANGED <<initHeaders, fetched, interfered, addedSince>>
    /\ UNCHANGED bvars

\* clear: its get_entities, and its delete_entities up to the request.
ClearFetch(resp) ==
    /\ rpc = "clear"
    /\ LET h == get_entities_headers(baseHeaders, EmptyFilter)
           r == get_entities_result(resp, ServerQuery(store, EmptyFilter.match))
           p == delete_entities_body(clear_ids(r.val))
       IN  /\ rlog' = Append(rlog, Request("POST", "entity", <<>>, h.req))
           /\ baseHeaders' = h.self
           /\ fetched' = [done |-> r.kind # "raise", entities |-> r.val]
           /\ IF r.kind = "raise" THEN Leave(r)
              ELSE IF p.exc # NoExc THEN Leave(Raise(p.exc))
              ELSE /\ rpc' = "clear_delete"
                   /\ UNCHANGED <<rop, rres>>
    /\ addedSince' = {}
    /\ UNCHANGED <<store, initHeaders, interfered>>
    /\ UNCHANGED bvars

\* clear: the request of its delete_entities.
ClearDelete(resp) ==
    /\ rpc = "clear_delete"
    /\ DeleteStep(clear_ids(fetched.entities), resp)
    /\ UNCHANGED <<initHeaders, fetched, interfered, addedSince>>
    /\ UNCHANGED bvars

\* Another client of the repository adds or deletes an entity.
OtherAddEntity(i) ==
    /\ i \notin store
    /\ store' = store \cup {i}
    /\ interfered' = (interfered \/ rpc # "idle")
    /\ addedSince' = IF rpc = "clear_delete" THEN addedSince \cup {i} ELSE addedSince
    /\ UNCHANGED <<baseHeaders, initHeaders, rpc, rop, rres, rlog, fetched>>
    /\ UNCHANGED bvars

OtherDeleteEntity(i) ==
    /\ i \in store
    /\ store' = store \ {i}
    /\ interfered' = (interfered \/ rpc # "idle")
    /\ addedSince' = addedSince \ {i}
    /\ UNCHANGED <<baseHeaders, initHeaders, rpc, rop, rres, rlog, fetched>>
    /\ UNCHANGED bvars

\* ============================================================ specifications
NextBase ==
    \/ \E m \in BaseMethods, name \in Names : CallBase(m, name)
    \/ \E resp \in Responses : ConnectRepository(resp)
    \/ \E resp \in Responses : CreateRepository(resp)
    \/ \E resp \in Responses : DeleteRepository(resp)
    \/ \E resp \in Responses : DcCreate(resp)
    \/ \E resp \in Responses : DcDelete(resp)
    \/ \E resp \in Responses : DcRecreate(resp)
    \/ \E resp \in Responses : GrList(resp)
    \/ \E resp \in Responses : GrConnect(resp)
    \/ \E name \in Names : OtherCreateRepository(name)
    \/ \E name \in Names : OtherDeleteRepository(name)

NextRepo ==
    \/ \E m \in RepoMethods : \E args \in ArgsOf(m) : CallRepo(m, args)
    \/ \E resp \in Responses : AddEntities(resp)
    \/ \E resp \in Responses : GetEntities(resp)
    \/ \E resp \in Responses : DeleteEntities(resp)
    \/ \E resp \in Responses : ImportData(resp)
    \/ \E resp \in Responses : ClearFetch(resp)
    \/ \E resp \in Responses : ClearDelete(resp)
    \/ \E resp \in Responses : Hyql(resp)
    \/ \E i \in Ids : OtherAddEntity(i)
    \/ \E i \in Ids : OtherDeleteEntity(i)

\* The base client, against a server whose repositories come and go.
InitBaseOnly ==
    /\ InitBase
    /\ InitRepo
    /\ store = {}

SpecBase == InitBaseOnly /\ [][NextBase]_vars

\* A repository client of an existing repository, and the other clients of
\* that repository.
InitRepoOnly ==
    /\ InitRepo
    /\ InitBase
    /\ repos = Names

SpecRepo == InitRepoOnly /\ [][NextRepo]_vars

\* =================================================================== claims
\* get_entities({}) answered with a success response, on a repository
\* holding the entities S.
GetAll(S) == get_entities_result("ok", ServerQuery(S, EmptyFilter.match)).val

NoDuplicates(s) == \A j, k \in 1..Len(s) : s[j].id = s[k].id => j = k

LastExc == IF excLog = <<>> THEN NoExc ELSE excLog[Len(excLog)]

BaseReturned(m) == bpc = "idle" /\ bop.name = m

\* A step with which the repository method m returns or raises.
RepoLeaves(m) == rop.name = m /\ rpc # "idle" /\ rpc' = "idle"

\* C1: when the server answers connect_repository(name) with its listing, the
\* call returns a client bound to name if and only if name is in that
\* listing, and raises 'Could not connect to repository.' when it is not.
C1_ConnectIffListed ==
    (BaseReturned("connect_repository") /\ LastExc = NoExc) =>
        /\ (bres = HKRepositoryInit(bop.arg)) <=> InList(bop.arg, seen)
        /\ bres.kind = "client" => bres.val = <<bop.arg>>
        /\ ~InList(bop.arg, seen) =>
               bres = Raise(Exc("HKpyError", "Could not connect to repository."))

C1_Witness ==
    /\ BaseReturned("connect_repository")
    /\ LastExc = NoExc
    /\ seen # <<>>
    /\ ~InList(bop.arg, seen)
    /\ bres.kind = "raise"

\* C6: create_repository, delete_repository and get_repositories raise an
\* HKBError raised inside them unchanged, raise any other exception wrapped
\* in an HKpyError whose cause it is, and let no other exception type out.
C6_ErrorTaxonomy ==
    (bpc = "idle" /\ bop.name \in {"create_repository", "delete_repository", "get_repositories"}) =>
        /\ (LastExc = NoExc) <=> (bres.kind # "raise")
        /\ LastExc.type = "HKBError" => bres.exc = LastExc
        /\ LastExc.type \notin {"none", "HKBError"} =>
               /\ bres.exc.type = "HKpyError"
               /\ CauseOf(bres.exc) = LastExc
        /\ bres.kind = "raise" => bres.exc.type \in {"HKBError", "HKpyError"}

C6_Witness ==
    /\ BaseReturned("get_repositories")
    /\ Len(reqLog) = 2
    /\ bres.exc.type = "HKpyError"
    /\ CauseOf(bres.exc) = Exc("HKpyError", "Could not connect to repository.")

\* C7 as stated: every base-client call issues exactly one HTTP request.
C7_OneRequestPerCall ==
    (bpc = "idle" /\ bop.name # "none") => Len(reqLog) = 1

\* C7 as amended: connect, create and delete issue exactly one request;
\* delete_create_repository issues PUT, or PUT DELETE when the delete fails,
\* or PUT DELETE PUT; get_repositories issues its listing request and one
\* more listing request per listed name it connects, all of them when it
\* returns.
C7_RequestCounts ==
    (bpc = "idle" /\ bop.name # "none") =>
        /\ bop.name \in {"connect_repository", "create_repository", "delete_repository"} =>
               Len(reqLog) = 1
        /\ bop.name = "delete_create_repository" =>
               reqLog \in {<<"PUT">>, <<"PUT", "DELETE">>, <<"PUT", "DELETE", "PUT">>}
        /\ bop.name = "get_repositories" =>
               /\ Len(reqLog) >= 1
               /\ Len(reqLog) <= 1 + Len(grList)
               /\ \A k \in 1..Len(reqLog) : reqLog[k] = "GET"
               /\ bres.kind = "clients" => Len(reqLog) = 1 + Len(grList)

C7_Witness ==
    /\ BaseReturned("get_repositories")
    /\ bres.kind = "clients"
    /\ Len(grList) = 2
    /\ Len(reqLog) = 3

\* C8, the calls delete_create_repository makes: a create first; nothing more
\* when it succeeds; after an HKBError a delete and then, unless the delete
\* raised, a second create, whose error or the delete's is raised as it is;
\* after any other exception no delete, and 'Repository not deleted or
\* created.' wrapping that exception.
C8_Calls ==
    (BaseReturned("delete_create_repository")) =>
        /\ Len(reqLog) >= 1 /\ reqLog[1] = "PUT"
        /\ excLog[1] = NoExc =>
               reqLog = <<"PUT">> /\ bres = HKRepositoryInit(bop.arg)
        /\ excLog[1].type = "HKBError" =>
               /\ Len(reqLog) >= 2 /\ reqLog[2] = "DELETE"
               /\ excLog[2] # NoExc =>
                      reqLog = <<"PUT", "DELETE">> /\ bres = Raise(excLog[2])
               /\ excLog[2] = NoExc =>
                      /\ reqLog = <<"PUT", "DELETE", "PUT">>
                      /\ bres = IF excLog[3] = NoExc THEN HKRepositoryInit(bop.arg)
                                ELSE Raise(excLog[3])
        /\ excLog[1].type \notin {"none", "HKBError"} =>
               /\ reqLog = <<"PUT">>
               /\ bres = Raise(ExcFrom("HKpyError", "Repository not deleted or created.",
                                       excLog[1]))

\* C8, the result: when delete_create_repository returns, the repository
\* exists on the server.
C8_ExistsOnReturn ==
    (bop.name = "delete_create_repository" /\ bpc # "idle" /\ bpc' = "idle"
        /\ bres'.kind # "raise") =>
        /\ bres' = HKRepositoryInit(bop.arg)
        /\ bop.arg \in repos'

\* C8: delete_create_repository creates, and on an HKBError deletes and
\* creates again, in that order, with the errors its handlers let through;
\* whenever it returns, the named repository exists.
C8_DeleteCreate == [] C8_Calls /\ [][C8_ExistsOnReturn]_vars

C8_Witness ==
    /\ BaseReturned("delete_create_repository")
    /\ reqLog = <<"PUT", "DELETE", "PUT">>
    /\ bres = HKRepositoryInit(bop.arg)

\* C2: when clear() returns after fetching at least one entity, and no other
\* client wrote to the repository during the call, get_entities({}) is empty.
C2_ClearEmpties ==
    [][(RepoLeaves("clear") /\ rres'.kind = "none" /\ ~interfered'
            /\ fetched'.entities # <<>>) =>
        GetAll(store') = <<>>]_vars

C2_Witness ==
    /\ rpc = "idle" /\ rop.name = "clear"
    /\ rres.kind = "none"
    /\ ~interfered
    /\ Len(fetched.entities) = 2
    /\ GetAll(store) = <<>>

\* C3 as stated: when clear() returns, every entity another client added
\* between its fetch and its delete is present, and every fetched entity is
\* gone.
C3_AddedSurvive ==
    [][(RepoLeaves("clear") /\ rres'.kind = "none") =>
        /\ addedSince \subseteq store'
        /\ IdsOf(fetched.entities) \cap store' = {}]_vars

\* C3 as amended: clear() is a fetch and then a delete of the fetched ids;
\* when it returns every fetched id is gone, and every entity another client
\* added in between under an id that was not fetched is present.
C3_AddedOtherIdsSurvive ==
    [][(RepoLeaves("clear") /\ rres'.kind = "none") =>
        /\ Len(rlog') = 2
        /\ rlog'[1].verb = "POST" /\ rlog'[1].path = "entity"
        /\ rlog'[2].verb = "DELETE" /\ rlog'[2].path = "entity/"
        /\ rlog'[2].body = IdAll(fetched.entities)
        /\ (addedSince \ IdsOf(fetched.entities)) \subseteq store'
        /\ IdsOf(fetched.entities) \cap store' = {}]_vars

C3_Witness ==
    /\ rpc = "idle" /\ rop.name = "clear"
    /\ rres.kind = "none"
    /\ fetched.entities # <<>>
    /\ addedSince # {}
    /\ addedSince \subseteq store

\* C4: after a successful add_entities(E), get_entities({}) holds every
\* entity of E and every entity it held before, each once; when the ids of E
\* were all there already (a repeated add), it is what it was.
C4_AddThenGet ==
    [][(RepoLeaves("add_entities") /\ rres'.kind = "none") =>
        /\ \A i \in IdsOf(rop.args.elems) : i \in IdsOf(GetAll(store'))
        /\ \A i \in IdsOf(GetAll(store)) : i \in IdsOf(GetAll(store'))
        /\ NoDuplicates(GetAll(store'))
        /\ IdsOf(GetAll(store')) \subseteq IdsOf(GetAll(store)) \cup IdsOf(rop.args.elems)
        /\ IdsOf(rop.args.elems) \subseteq store => GetAll(store') = GetAll(store)]_vars

C4_Witness ==
    /\ rpc = "idle" /\ rop.name = "add_entities"
    /\ rres.kind = "none"
    /\ Len(rlog) = 1
    /\ Len(rlog[1].body) = 2
    /\ IdsOf(rlog[1].body) = {AllIds[1], AllIds[2]}
    /\ IdsOf(rlog[1].body) \subseteq store

\* The argument shapes delete_entities accepts: an id, a list of ids, an
\* entity, a list of entities.
AcceptedIds(arg) ==
    \/ \A k \in 1..Len(arg.elems) : arg.elems[k].kind = "str"
    \/ \A k \in 1..Len(arg.elems) : arg.elems[k].kind = "HKEntity"

\* C5: delete_entities, given an id, a list of ids, an entity or a list of
\* entities, issues one DELETE whose body lists the ids, and when it
\* succeeds get_entities({}) holds none of them and every other entity.
C5_DeleteShapes ==
    [][(RepoLeaves("delete_entities") /\ AcceptedIds(rop.args)) =>
        /\ Len(rlog') = 1
        /\ rlog'[1].verb = "DELETE"
        /\ rlog'[1].body = [k \in 1..Len(rop.args.elems) |-> Elem("str", rop.args.elems[k].id)]
        /\ rres'.kind = "none" =>
               IdsOf(GetAll(store')) = IdsOf(GetAll(store)) \ IdsOf(rop.args.elems)]_vars

\* C9: the header mapping of the base client is what HKBase.__init__ made it,
\* whatever the repository clients have done.
C9_HeadersUntouched ==
    /\ baseHeaders = initHeaders
    /\ DOMAIN baseHeaders = {"Content-Type", "Authorization"}
    /\ baseHeaders["Content-Type"] = "application/json"

C9_Witness ==
    /\ rpc = "idle" /\ rop.name = "import_data"
    /\ Len(rlog) = 1
    /\ rlog[1].path = "rdf"
    /\ "context-parent" \in DOMAIN rlog[1].headers
    /\ rlog[1].headers["Content-Type"] = "text/turtle"

\* C10: clear() on a repository whose get_entities({}) is empty raises nothing.
C10_ClearOnEmpty ==
    (rpc = "idle" /\ rop.name = "clear" /\ fetched.done /\ fetched.entities = <<>>) =>
        rres.kind = "none"

====
